---- MODULE Spec2Model ----
(***************************************************************************)
(* Model of src/semaphore/logic.rs: a counting semaphore kept as one Redis *)
(* list.  wait_for_slot pushes the caller's id and polls its position;     *)
(* clean_up pops the head of the list and refreshes the key's expiry in    *)
(* two spawned tasks.                                                      *)
(*                                                                         *)
(* One step of the model is one store round trip of one caller together    *)
(* with the local computation that follows it up to the next await.        *)
(* Callers are numbered in the order of their first store access, so the   *)
(* id of a caller is also its rank in push order (ids are pairwise         *)
(* distinct and otherwise interchangeable).                                *)
(***************************************************************************)
EXTENDS Integers, Sequences, FiniteSets, TLC

(* ------------------------------ bounds -------------------------------- *)
NumCallers == 3
MaxCapacity == 3
MaxMaxPosition == 2

(* ------------------------- program constants -------------------------- *)
\* con.expire(&data.queue_key, 30_usize)
ExpireSeconds == 30
\* .unwrap_or(1)
NotFoundPosition == 1

Ids == 1..NumCallers
NoTtl == 0
NoError == <<>>

VARIABLES
    capacity,       \* ts.capacity, the same for every caller of the key
    max_position,   \* ts.max_position, the same for every caller of the key
    queue,          \* the Redis list at ts.queue_key (<<>> = key absent)
    ttl,            \* time-to-live of the key, NoTtl when it has none
    pc,             \* where each caller's wait_for_slot is, or how it ended
    position,       \* wait_for_slot's local `position`
    error,          \* payload of MaxPositionExceeded: <<position, max_position>>
    cpc,            \* where each caller's clean_up is, or how it ended
    task1,          \* state of clean_up's expire task
    task2,          \* state of clean_up's pop task
    freed           \* history: <<h, w>> when the last change of the queue was
                    \* holder h's pop from a full set of holders followed by w

vars == <<capacity, max_position, queue, ttl, pc, position, error,
          cpc, task1, task2, freed>>

config == <<capacity, max_position>>
NoFreed == <<0, 0>>

(* --------------------------- store commands --------------------------- *)
\* A push at the head of the list (LPUSH).
rpushHead(q, id) == <<id>> \o q

\* RPUSH key value: append, the reply is the new length.
rpush(q, id) == Append(q, id)

\* LPOS key value: 0-indexed rank of the first occurrence, or -1 for nil.
lpos(q, id) ==
    IF \E i \in 1..Len(q) : q[i] = id
    THEN (CHOOSE i \in 1..Len(q) :
              q[i] = id /\ \A j \in 1..(i - 1) : q[j] # id) - 1
    ELSE -1

\* A pop that takes the newest entry (RPOP) instead of the oldest.
lpopTail(q) == IF q = <<>> THEN q ELSE SubSeq(q, 1, Len(q) - 1)

\* LPOP key 1: remove the head; nothing to remove from an absent key.
lpop(q) == IF q = <<>> THEN q ELSE Tail(q)

\* An expire that extends the remaining time instead of replacing it.
expireAdds(q, t, seconds) == IF q = <<>> THEN t ELSE t + seconds

\* EXPIRE key seconds: sets the time-to-live of an existing key only.
expire(q, t, seconds) == IF q = <<>> THEN t ELSE seconds

\* A store that keeps the time-to-live of a list it has removed.
ttlAfterKeeps(q, t) == t

\* A list that becomes empty is removed by the store together with its
\* time-to-live; a list created by a push has none.
ttlAfter(q, t) == IF q = <<>> THEN NoTtl ELSE t

InQueue(id, q) == \E i \in 1..Len(q) : q[i] = id

(* ------------------------- wait_for_slot ------------------------------ *)
\* Check with the bound compared one too high.
CheckOffByOne(p) ==
    IF p < capacity THEN "ok"
    ELSE IF max_position > 0 /\ p > max_position + 1 THEN "rejected"
    ELSE "waiting"

\* Check without the test that the bound is enabled.
CheckAlwaysBounded(p) ==
    IF p < capacity THEN "ok"
    ELSE IF p > max_position THEN "rejected"
    ELSE "waiting"

\* Check that admits a position equal to capacity.
CheckInclusive(p) ==
    IF p <= capacity THEN "ok"
    ELSE IF max_position > 0 /\ p > max_position THEN "rejected"
    ELSE "waiting"

\* The body of the loop up to the sleep: the outcome for a position value.
Check(p) ==
    IF p < capacity THEN "ok"
    ELSE IF max_position > 0 /\ p > max_position THEN "rejected"
    ELSE "waiting"

Payload(p) == IF Check(p) = "rejected" THEN <<p, max_position>> ELSE NoError

Init ==
    /\ capacity \in 1..MaxCapacity
    /\ max_position \in 0..MaxMaxPosition
    /\ queue = <<>>
    /\ ttl = NoTtl
    /\ pc = [c \in Ids |-> "idle"]
    /\ position = [c \in Ids |-> 0]
    /\ error = [c \in Ids |-> NoError]
    /\ cpc = [c \in Ids |-> "none"]
    /\ task1 = [c \in Ids |-> "none"]
    /\ task2 = [c \in Ids |-> "none"]
    /\ freed = NoFreed

\* Callers reach the store in the order of their numbers.
MayStart(c) == pc[c] = "idle" /\ \A d \in 1..(c - 1) : pc[d] # "idle"

\* Push that takes the id out again when the call is rejected.
PushRollback(c) ==
    /\ MayStart(c)
    /\ queue' = IF Check(Len(queue) + 1) = "rejected" THEN queue
                ELSE rpush(queue, c)
    /\ ttl' = ttlAfter(queue', ttl)
    /\ position' = [position EXCEPT ![c] = Len(queue) + 1]
    /\ pc' = [pc EXCEPT ![c] = Check(Len(queue) + 1)]
    /\ error' = [error EXCEPT ![c] = Payload(Len(queue) + 1)]
    /\ freed' = NoFreed
    /\ UNCHANGED <<config, cpc, task1, task2>>

\* Lines 19-33/36-42: connect, rpush, first pass through the loop.
Push(c) ==
    /\ MayStart(c)
    /\ queue' = rpush(queue, c)
    /\ ttl' = ttlAfter(queue', ttl)
    /\ position' = [position EXCEPT ![c] = Len(queue')]
    /\ pc' = [pc EXCEPT ![c] = Check(Len(queue'))]
    /\ error' = [error EXCEPT ![c] = Payload(Len(queue'))]
    /\ freed' = NoFreed
    /\ UNCHANGED <<config, cpc, task1, task2>>

\* Lines 19 and 25: the connection or the push fails, `?` returns the error.
PushFail(c) ==
    /\ MayStart(c)
    /\ pc' = [pc EXCEPT ![c] = "push_err"]
    /\ UNCHANGED <<config, queue, ttl, position, error, cpc, task1, task2, freed>>

\* Poll whose lookup result never reaches the loop's `position`.
PollShadowed(c) ==
    /\ pc[c] = "waiting"
    /\ pc' = [pc EXCEPT ![c] = Check(position[c])]
    /\ error' = [error EXCEPT ![c] = Payload(position[c])]
    /\ UNCHANGED <<config, queue, ttl, position, cpc, task1, task2, freed>>

\* Lines 51-59 and the next pass through lines 30-42: sleep, lpos, check.
Poll(c) ==
    /\ pc[c] = "waiting"
    /\ LET found == lpos(queue, c)
           p == IF found = -1 THEN NotFoundPosition ELSE found
       IN /\ position' = [position EXCEPT ![c] = p]
          /\ pc' = [pc EXCEPT ![c] = Check(p)]
          /\ error' = [error EXCEPT ![c] = Payload(p)]
    /\ UNCHANGED <<config, queue, ttl, cpc, task1, task2, freed>>

\* Line 57: the lookup fails, `?` returns the error.
PollFail(c) ==
    /\ pc[c] = "waiting"
    /\ pc' = [pc EXCEPT ![c] = "lpos_err"]
    /\ UNCHANGED <<config, queue, ttl, position, error, cpc, task1, task2, freed>>

\* The caller drops the future while it sleeps (line 51) or awaits the store.
Abandon(c) ==
    /\ pc[c] = "waiting"
    /\ pc' = [pc EXCEPT ![c] = "abandoned"]
    /\ UNCHANGED <<config, queue, ttl, position, error, cpc, task1, task2, freed>>

Returned(c) == pc[c] \in {"ok", "rejected", "push_err", "lpos_err"}

(* ------------------------------ clean_up ------------------------------ *)
\* The queue holds `capacity` admitted holders, c among them, and then the
\* waiter w.
HoldersThenWaiter(q, c, w) ==
    /\ Len(q) > capacity
    /\ q[capacity + 1] = w
    /\ pc[w] = "waiting"
    /\ \A i \in 1..capacity : pc[q[i]] = "ok"
    /\ \E i \in 1..capacity : q[i] = c

FreedBy(q, c) ==
    IF \E w \in Ids : HoldersThenWaiter(q, c, w)
    THEN <<c, CHOOSE w \in Ids : HoldersThenWaiter(q, c, w)>>
    ELSE NoFreed

\* Lines 71-95: both channels are filled and both tasks are spawned; clean_up
\* then waits at line 97.
Spawn(c) ==
    /\ cpc[c] = "none"
    /\ cpc' = [cpc EXCEPT ![c] = "await1"]
    /\ task1' = [task1 EXCEPT ![c] = "spawned"]
    /\ task2' = [task2 EXCEPT ![c] = "spawned"]
    /\ UNCHANGED <<config, queue, ttl, pc, position, error, freed>>

\* clean_up called by any caller that is no longer inside wait_for_slot.
CleanUp(c) == (Returned(c) \/ pc[c] = "abandoned") /\ Spawn(c)

\* clean_up called only after wait_for_slot returned Ok or MaxPositionExceeded.
CleanUpReturned(c) == pc[c] \in {"ok", "rejected"} /\ Spawn(c)

\* clean_up called only by admitted callers.
CleanUpHolder(c) == pc[c] = "ok" /\ Spawn(c)

\* Lines 84-87: task1 connects and refreshes the expiry.
Expire(c) ==
    /\ task1[c] = "spawned"
    /\ ttl' = expire(queue, ttl, ExpireSeconds)
    /\ task1' = [task1 EXCEPT ![c] = "done"]
    /\ UNCHANGED <<config, queue, pc, position, error, cpc, task2, freed>>

\* Lines 85-86: the connection or the command fails in task1.
ExpireFail(c) ==
    /\ task1[c] = "spawned"
    /\ task1' = [task1 EXCEPT ![c] = "failed"]
    /\ UNCHANGED <<config, queue, ttl, pc, position, error, cpc, task2, freed>>

\* Lines 90-94: task2 connects and pops the head of the list.
Pop(c) ==
    /\ task2[c] = "spawned"
    /\ queue' = lpop(queue)
    /\ ttl' = ttlAfter(queue', ttl)
    /\ task2' = [task2 EXCEPT ![c] = "done"]
    /\ freed' = FreedBy(queue, c)
    /\ UNCHANGED <<config, pc, position, error, cpc, task1>>

\* Lines 91-93: the connection or the command fails in task2.
PopFail(c) ==
    /\ task2[c] = "spawned"
    /\ task2' = [task2 EXCEPT ![c] = "failed"]
    /\ UNCHANGED <<config, queue, ttl, pc, position, error, cpc, task1, freed>>

\* Join1 that drops the result of task1.
Join1IgnoreResult(c) ==
    /\ cpc[c] = "await1"
    /\ task1[c] # "spawned"
    /\ cpc' = [cpc EXCEPT ![c] = "await2"]
    /\ UNCHANGED <<config, queue, ttl, pc, position, error, task1, task2, freed>>

\* Line 97: task1.await?? - an error of task1 is returned at once, task2 is
\* left running.
Join1(c) ==
    /\ cpc[c] = "await1"
    /\ task1[c] # "spawned"
    /\ cpc' = [cpc EXCEPT ![c] = IF task1[c] = "failed" THEN "err" ELSE "await2"]
    /\ UNCHANGED <<config, queue, ttl, pc, position, error, task1, task2, freed>>

\* Lines 98-99: task2.await?? and Ok(()).
Join2(c) ==
    /\ cpc[c] = "await2"
    /\ task2[c] # "spawned"
    /\ cpc' = [cpc EXCEPT ![c] = IF task2[c] = "failed" THEN "err" ELSE "ok"]
    /\ UNCHANGED <<config, queue, ttl, pc, position, error, task1, task2, freed>>

(* ------------------------------ the store ----------------------------- *)
\* The time-to-live set by an expire elapses: the store removes the key.
\* How long that takes is left open.
KeyExpires ==
    /\ ttl # NoTtl
    /\ queue' = <<>>
    /\ ttl' = NoTtl
    /\ freed' = NoFreed
    /\ UNCHANGED <<config, pc, position, error, cpc, task1, task2>>

(* --------------------------- specifications --------------------------- *)
\* Every caller may wait, abandon its wait and release; the store answers
\* every command and the key does not expire.
Next ==
    \E c \in Ids :
        \/ Push(c)
        \/ Poll(c)
        \/ Abandon(c)
        \/ CleanUp(c)
        \/ Expire(c)
        \/ Pop(c)
        \/ Join1(c)
        \/ Join2(c)

Spec == Init /\ [][Next]_vars

\* No abandoned wait; clean_up at most once per caller and only after its
\* wait_for_slot returned Ok or MaxPositionExceeded.
NextReturned ==
    \E c \in Ids :
        \/ Push(c)
        \/ Poll(c)
        \/ CleanUpReturned(c)
        \/ Expire(c)
        \/ Pop(c)
        \/ Join1(c)
        \/ Join2(c)

SpecReturned == Init /\ [][NextReturned]_vars

\* As SpecReturned, and the store may fail any command of wait_for_slot.
NextWaitFaults ==
    \E c \in Ids :
        \/ Push(c)
        \/ PushFail(c)
        \/ Poll(c)
        \/ PollFail(c)
        \/ CleanUpReturned(c)
        \/ Expire(c)
        \/ Pop(c)
        \/ Join1(c)
        \/ Join2(c)

SpecWaitFaults == Init /\ [][NextWaitFaults]_vars

\* No bound on the queue depth; admitted callers release and the store may
\* fail either command of clean_up.
InitUnbounded == Init /\ max_position = 0

NextCleanFaults ==
    \E c \in Ids :
        \/ Push(c)
        \/ Poll(c)
        \/ CleanUpHolder(c)
        \/ Expire(c)
        \/ ExpireFail(c)
        \/ Pop(c)
        \/ PopFail(c)
        \/ Join1(c)
        \/ Join2(c)

SpecCleanFaults == InitUnbounded /\ [][NextCleanFaults]_vars

\* No bound on the queue depth, no store failure, no abandoned wait; every
\* admitted caller releases once, and every caller's pending step is
\* eventually taken (the runtime polls every task that is ready).
NextHolders ==
    \E c \in Ids :
        \/ Push(c)
        \/ Poll(c)
        \/ CleanUpHolder(c)
        \/ Expire(c)
        \/ Pop(c)
        \/ Join1(c)
        \/ Join2(c)

Fairness ==
    \A c \in Ids :
        /\ WF_vars(Push(c))
        /\ WF_vars(Poll(c))
        /\ WF_vars(CleanUpHolder(c))
        /\ WF_vars(Expire(c))
        /\ WF_vars(Pop(c))
        /\ WF_vars(Join1(c))
        /\ WF_vars(Join2(c))

SpecFair == InitUnbounded /\ [][NextHolders]_vars /\ Fairness

\* No store failure, no abandoned wait; clean_up once per caller and only
\* after its wait_for_slot returned Ok.
SpecHolders == Init /\ [][NextHolders]_vars

\* Waits may be abandoned, only admitted callers release, and the key may
\* expire whenever it carries a time-to-live.
NextExpiry ==
    \/ \E c \in Ids :
          \/ Push(c)
          \/ Poll(c)
          \/ Abandon(c)
          \/ CleanUpHolder(c)
          \/ Expire(c)
          \/ Pop(c)
          \/ Join1(c)
          \/ Join2(c)
    \/ KeyExpires

SpecExpiry == Init /\ [][NextExpiry]_vars

(* ------------------------------- claims ------------------------------ *)
\* A caller holds a slot from the return of Ok until it calls clean_up.
Holding(c) == pc[c] = "ok" /\ cpc[c] = "none"
Holders == {c \in Ids : Holding(c)}
NoCleanUp == \A c \in Ids : cpc[c] = "none"

\* C1: when clean_up is called at most once per caller and only after its
\* own wait_for_slot returned Ok or MaxPositionExceeded, the number of callers
\* that returned Ok and have not yet called clean_up is at most capacity.
CapacityBound == Cardinality(Holders) <= capacity

\* C2: the pop of caller x's clean_up, run while x's id is in the queue,
\* leaves a queue without x's id.
ReleaseRemovesOwnId ==
    [][\A x \in Ids :
          (task2[x] = "spawned" /\ task2'[x] = "done" /\ InQueue(x, queue))
              => ~InQueue(x, queue')]_vars

\* C3: without clean_up calls, each of the first `capacity` callers in push
\* order never observes a position value >= capacity (and so is admitted on
\* its first observation).
AdmissionOrder ==
    NoCleanUp =>
        \A c \in Ids :
            (c <= capacity /\ pc[c] # "idle") => position[c] < capacity

\* C4 as stated: a call that observed a position above the enabled bound has
\* failed with MaxPositionExceeded carrying that position and the bound.
BoundEnforcementAnyPosition ==
    \A c \in Ids :
        (max_position > 0 /\ pc[c] # "idle" /\ position[c] > max_position)
            => (pc[c] = "rejected" /\ error[c] = <<position[c], max_position>>)

\* C4 amended: a call that observed a position that is not below capacity
\* and is above the enabled bound has failed with MaxPositionExceeded
\* carrying that position and the bound.
BoundEnforcement ==
    \A c \in Ids :
        (/\ max_position > 0
         /\ pc[c] # "idle"
         /\ position[c] >= capacity
         /\ position[c] > max_position)
            => (pc[c] = "rejected" /\ error[c] = <<position[c], max_position>>)

BoundEnforcementWitness ==
    \E c \in Ids :
        /\ max_position > 0
        /\ position[c] >= capacity
        /\ position[c] > max_position
        /\ pc[c] = "rejected"
        /\ error[c] = <<position[c], max_position>>

\* C5: with max_position = 0 no call fails with MaxPositionExceeded.
DisabledBound ==
    max_position = 0 => \A c \in Ids : pc[c] # "rejected"

DisabledBoundWitness ==
    /\ max_position = 0
    /\ \E c \in Ids :
          pc[c] = "waiting" /\ position[c] = NumCallers /\ position[c] > capacity

\* C7: capacity 2, max_position 1, callers 1, 2, 3 push in this order and
\* nobody releases: callers 1 and 2 are not rejected and caller 3 ends with
\* MaxPositionExceeded(2, 1).
RejectionScenario ==
    (capacity = 2 /\ max_position = 1 /\ NoCleanUp
        /\ \A c \in Ids : pc[c] # "abandoned")
    => /\ pc[1] # "rejected"
       /\ pc[2] # "rejected"
       /\ pc[3] \in {"ok", "rejected"}
            => (pc[3] = "rejected" /\ error[3] = <<2, 1>>)

\* C6: when holder h's pop left a queue of `capacity` admitted holders
\* followed by the waiter w one entry shorter, h's clean_up has returned Ok
\* and the queue has not changed since, w's next lookup yields capacity - 1
\* and w's wait_for_slot returns Ok.
WaiterPolls(w) ==
    /\ pc[w] = "waiting"
    /\ pc'[w] # "abandoned"
    /\ (pc'[w] # "waiting" \/ position'[w] # position[w])

ReleaseFreesSlot ==
    [][\A w \in Ids :
          (freed[2] = w /\ cpc[freed[1]] = "ok" /\ WaiterPolls(w))
              => (position'[w] = capacity - 1 /\ pc'[w] = "ok")]_vars

ReleaseFreesSlotWitness ==
    /\ freed # NoFreed
    /\ cpc[freed[1]] = "ok"
    /\ pc[freed[2]] = "ok"
    /\ position[freed[2]] = capacity - 1
    /\ lpos(queue, freed[2]) = capacity - 1

\* C8: a step of wait_for_slot changes the queue only by appending the
\* caller's id, once, when its push succeeds; an id leaves the queue only as
\* the head popped by some clean_up, whatever the outcome of its call.
WaitStep(c) == pc'[c] # pc[c] \/ position'[c] # position[c]
PopStep(d) == task2[d] = "spawned" /\ task2'[d] = "done"

AcquireOnlyAppends ==
    [][\A c \in Ids :
          /\ WaitStep(c) =>
                IF pc[c] = "idle" /\ pc'[c] # "push_err"
                THEN queue' = Append(queue, c)
                ELSE queue' = queue
          /\ (InQueue(c, queue) /\ ~InQueue(c, queue')) =>
                \E d \in Ids : PopStep(d) /\ Head(queue) = c]_vars

AcquireOnlyAppendsWitness ==
    \E c, d \in Ids :
        /\ pc[c] = "rejected" /\ InQueue(c, queue)
        /\ pc[d] = "lpos_err" /\ InQueue(d, queue)
        /\ \E h \in Ids : task2[h] = "done"

\* C9: clean_up returns Ok only when both tasks succeeded and an error
\* when one of them failed; its return changes nothing in the store, an id
\* that was popped stays out of the queue and a refreshed expiry stays on
\* the key while the key exists.
ReleaseOutcome ==
    \A c \in Ids :
        /\ cpc[c] = "ok" => (task1[c] = "done" /\ task2[c] = "done")
        /\ cpc[c] = "err" => (task1[c] = "failed" \/ task2[c] = "failed")

NoRollback ==
    /\ \A c \in Ids : cpc'[c] # cpc[c] => (queue' = queue /\ ttl' = ttl)
    /\ \A c \in Ids :
          (pc[c] # "idle" /\ ~InQueue(c, queue)) => ~InQueue(c, queue')
    /\ (ttl = ExpireSeconds /\ queue' # <<>>) => ttl' = ExpireSeconds

ReleaseSurfacesErrors == []ReleaseOutcome /\ [][NoRollback]_vars

ReleaseSurfacesErrorsWitness ==
    \E c, d \in Ids :
        /\ cpc[c] = "err" /\ task1[c] = "failed" /\ task2[c] = "done"
        /\ ~InQueue(c, queue)
        /\ cpc[d] = "err" /\ task1[d] = "done" /\ task2[d] = "failed"
        /\ ttl = ExpireSeconds

\* C10: with max_position = 0, admitted callers releasing once and every
\* pending step eventually taken, every wait_for_slot call returns Ok.
EventualAdmission == <>(\A c \in Ids : pc[c] = "ok")

EventualAdmissionWitness ==
    /\ max_position = 0
    /\ capacity < NumCallers
    /\ \A c \in Ids : pc[c] = "ok"

\* C11: in every state with a non-empty queue the key carries a
\* time-to-live, so that the residue of abandoned waits is removed in the end.
QueueCarriesTtl == queue # <<>> => ttl # NoTtl

\* C12 as stated: every expire of clean_up leaves the key with a
\* time-to-live of 30, whatever the queue holds, an absent queue included.
ExpireStep(c) == task1[c] = "spawned" /\ task1'[c] = "done"

ExpiryRefreshAnyQueue ==
    [][\A c \in Ids : ExpireStep(c) => ttl' = ExpireSeconds]_vars

\* C12 amended: every expire of clean_up that the store answers leaves the
\* queue as it is and the key with a time-to-live of exactly 30 when the
\* queue is not empty; on an absent key it changes nothing and the key stays
\* without time-to-live.
ExpiryRefresh ==
    [][\A c \in Ids :
          ExpireStep(c) =>
              /\ queue' = queue
              /\ ttl' = IF queue = <<>> THEN NoTtl ELSE ExpireSeconds]_vars

ExpiryRefreshWitness ==
    /\ queue # <<>>
    /\ ttl = ExpireSeconds
    /\ \E c, d \in Ids : c # d /\ task1[c] = "done" /\ task1[d] = "done"

\* C13: a lookup that does not find the caller's id sets position to 1 and
\* the call does not return Ok on it.
NotFoundStillWaiting ==
    [][\A c \in Ids :
          (WaiterPolls(c) /\ ~InQueue(c, queue))
              => (position'[c] = NotFoundPosition /\ pc'[c] # "ok")]_vars

\* C14: when clean_up has returned, with Ok or with an error, both of its
\* tasks have finished.
ReleaseJoinsBoth ==
    \A c \in Ids :
        cpc[c] \in {"ok", "err"}
            => (task1[c] # "spawned" /\ task2[c] # "spawned")

\* C15: from every store state, clean_up's pop followed by its expire and
\* its expire followed by its pop end in the same queue and the same
\* time-to-live; PopLeg and ExpireLeg are what the steps of the two tasks do.
PopLeg(st) ==
    LET q == lpop(st[1]) IN <<q, ttlAfter(q, st[2])>>

ExpireLeg(st) == <<st[1], expire(st[1], st[2], ExpireSeconds)>>

LegsAreSteps ==
    \A c \in Ids :
        /\ PopStep(c) => <<queue', ttl'>> = PopLeg(<<queue, ttl>>)
        /\ ExpireStep(c) => <<queue', ttl'>> = ExpireLeg(<<queue, ttl>>)

LegsCommute ==
    /\ [](ExpireLeg(PopLeg(<<queue, ttl>>)) = PopLeg(ExpireLeg(<<queue, ttl>>)))
    /\ [][LegsAreSteps]_vars

LegsCommuteWitness ==
    /\ Len(queue) = 1
    /\ ttl = ExpireSeconds
    /\ \E c \in Ids : task1[c] = "spawned" /\ task2[c] = "spawned"

\* C16: when only admitted callers call clean_up, once each, no set of
\* callers that returned Ok and have not yet called clean_up is larger than
\* capacity.
HolderOnlyCapacityBound ==
    \A S \in SUBSET Ids :
        (\A c \in S : pc[c] = "ok" /\ cpc[c] = "none")
            => Cardinality(S) <= capacity

HolderOnlyCapacityBoundWitness ==
    \E c \in Ids :
        /\ Holding(c)
        /\ ~InQueue(c, queue)
        /\ position[c] = NotFoundPosition
        /\ \E d \in Ids : d # c /\ cpc[d] = "ok"

\* C17: a call fails with MaxPositionExceeded only while the 0-indexed
\* position of its id in the queue is at least capacity.
NoRejectionInsideCapacity ==
    [][\A c \in Ids :
          (pc[c] # "rejected" /\ pc'[c] = "rejected")
              => lpos(queue', c) >= capacity]_vars

\* C18: while a call waits, each new position value is at most the one
\* before, and no poll ends the call with MaxPositionExceeded: a call is
\* rejected by the check right after its push or never.
RejectionOnlyAtPush ==
    [][\A c \in Ids :
          pc[c] = "waiting"
              => (position'[c] <= position[c] /\ pc'[c] # "rejected")]_vars

RejectionOnlyAtPushWitness ==
    /\ max_position > 0
    /\ \E c \in Ids :
          /\ pc[c] = "waiting"
          /\ position[c] = lpos(queue, c)
          /\ position[c] < max_position

\* C19: also when the key expires under holders and waiters, the callers
\* that returned Ok and have not yet called clean_up number at most capacity.
NoOverAdmissionAfterExpiry ==
    Cardinality({c \in Ids : pc[c] = "ok" /\ cpc[c] = "none"}) <= capacity

====
